---- MODULE Spec2Model ----
(***************************************************************************)
(* BudgetBuddy: the Hono application behind app/api/[[...route]]/route.ts. *)
(* A request enters through the exported GET / POST entry points           *)
(* (handle(app)), is matched against the handlers registered on the app    *)
(* under the base path /api, and the matched handlers run one after the    *)
(* other until one of them returns a response.                             *)
(***************************************************************************)
EXTENDS Integers, Sequences, FiniteSets, TLC

\* ------------------------------------------------------------------ bounds
NumReq == 2        \* dispatches that can be in flight together
NumUsers == 2      \* distinct signed-in users the identity provider knows

Slots == 1..NumReq
Users == 1..NumUsers

\* ------------------------------------------------------------ request data
NoUser == 0        \* auth.userId is null / undefined
NoCred == 0        \* the request carries no session credential
Creds == {NoCred} \cup Users     \* credential k is the session of user k

Methods == {"GET", "POST"}

\* a path is the sequence of its segments: /api/hello is <<"api","hello">>
HelloPath == <<"api", "hello">>
HelloTestPath == <<"api", "hello", "123">>
BareHelloPath == <<"hello">>
Paths == {HelloPath, HelloTestPath, BareHelloPath}

Requests == [method : Methods, path : Paths, cred : Creds]
NoRequest == [method |-> "GET", path |-> <<>>, cred |-> NoCred]

\* ---------------------------------------------------------------------- state
\* app is the routing table held by the Hono app object; the other variables
\* are per dispatch
VARIABLES app, pc, request, matched, idx, context, trace, response

vars == <<app, pc, request, matched, idx, context, trace, response>>

\* the header components: the Navigation drawer state and what its hooks
\* return (usePathname, useMedia), what useUser returns to WelcomeMsg, and
\* the last event the components saw
VARIABLES isOpen, pathname, isMobile, isLoaded, user, event

uiVars == <<isOpen, pathname, isMobile, isLoaded, user, event>>

\* ------------------------------------------------------------ route table
Lit(s) == [kind |-> "lit", name |-> s]
Param(s) == [kind |-> "param", name |-> s]

\* the app built without its base path
BasePath_None == <<>>

\* new Hono().basePath('/api')
BasePath == <<Lit("api")>>

\* app.get(path, h1, ..., hn): one routing entry per handler, in order,
\* each under the base path
RECURSIVE AppOn(_, _, _)
AppOn(method, path, handlers) ==
  IF handlers = <<>> THEN <<>>
  ELSE <<[method |-> method, path |-> BasePath \o path, handler |-> Head(handlers)]>>
       \o AppOn(method, path, Tail(handlers))

AppGet(path, handlers) == AppOn("GET", path, handlers)

\* the handler registered ahead of the middleware that feeds it
routes_HandlerFirst == AppGet(<<Lit("hello")>>, <<"helloHandler", "clerkMiddleware">>)

\* the chain registered on the parameterised pattern instead of /hello
routes_OnTestPattern ==
  AppGet(<<Lit("hello"), Param("test")>>, <<"clerkMiddleware", "helloHandler">>)

\* the handlers registered on the app
routes == AppGet(<<Lit("hello")>>, <<"clerkMiddleware", "helloHandler">>)

\* the pattern of the commented-out route /hello/:test, under the base path
TestPattern == BasePath \o <<Lit("hello"), Param("test")>>

SegMatch(pat, seg) == pat.kind = "param" \/ (pat.kind = "lit" /\ pat.name = seg)

PathMatch(pattern, path) ==
  /\ Len(pattern) = Len(path)
  /\ \A k \in 1..Len(pattern) : SegMatch(pattern[k], path[k])

\* a router that looks at the path only
RouteMatch_AnyMethod(r, method, path) == PathMatch(r.path, path)

RouteMatch(r, method, path) ==
  /\ r.method = method
  /\ PathMatch(r.path, path)

\* a plausible router slip: every registered handler is handed to every request
Match_AllHandlers(method, path) == routes

\* the handlers that match a request, in registration order
Match(method, path) ==
  LET Test(r) == RouteMatch(r, method, path) IN SelectSeq(app, Test)

\* ---------------------------------------------------------------- responses
DefaultStatus == 200
NotFoundStatus == 404

\* c.json(body) without a status argument
CJson(body) == [status |-> DefaultStatus, ctype |-> "application/json", body |-> body]

\* Hono's default not-found response
NotFoundResponse ==
  [status |-> NotFoundStatus, ctype |-> "text/plain", body |-> [text |-> "404 Not Found"]]

\* ------------------------------------------------------------------ handlers
EmptyContext == [k \in {} |-> [userId |-> NoUser]]

\* the identity provider: the session of user k resolves to user k
Verify(cred) == [userId |-> IF cred \in Users THEN cred ELSE NoUser]

\* a hard gate: the middleware itself answers an anonymous request
clerkMiddleware_HardGate(req, ctx) ==
  IF Verify(req.cred).userId = NoUser
  THEN [ctx |-> ctx,
        res |-> <<[status |-> 401, ctype |-> "application/json",
                   body |-> [message |-> "Unauthorized"]]>>]
  ELSE [ctx |-> [k \in {"clerkAuth"} |-> Verify(req.cred)], res |-> <<>>]

\* a middleware that forgets to store what it resolved
clerkMiddleware_NoStore(req, ctx) == [ctx |-> ctx, res |-> <<>>]

\* clerkMiddleware(): resolve the request's credential, store the auth
\* object in the request context and call next()
clerkMiddleware(req, ctx) ==
  [ctx |-> [k \in {"clerkAuth"} |-> Verify(req.cred)], res |-> <<>>]

\* getAuth(c): the stored auth object; auth?.userId is undefined without one
getAuthUserId(ctx) ==
  IF "clerkAuth" \in DOMAIN ctx THEN ctx["clerkAuth"].userId ELSE NoUser

\* the test of the handler inverted
helloHandler_Inverted(req, ctx) ==
  IF getAuthUserId(ctx) # NoUser
  THEN [ctx |-> ctx, res |-> <<CJson([message |-> "Unauthorized"])>>]
  ELSE [ctx |-> ctx,
        res |-> <<CJson([message |-> "Hello Next.js!", userId |-> getAuthUserId(ctx)])>>]

\* the handler without its test of auth?.userId
helloHandler_NoCheck(req, ctx) ==
  [ctx |-> ctx,
   res |-> <<CJson([message |-> "Hello Next.js!", userId |-> getAuthUserId(ctx)])>>]

\* the terminal handler of GET /hello
helloHandler(req, ctx) ==
  IF getAuthUserId(ctx) = NoUser
  THEN [ctx |-> ctx, res |-> <<CJson([message |-> "Unauthorized"])>>]
  ELSE [ctx |-> ctx,
        res |-> <<CJson([message |-> "Hello Next.js!", userId |-> getAuthUserId(ctx)])>>]

RunHandler(name, req, ctx) ==
  IF name = "clerkMiddleware" THEN clerkMiddleware(req, ctx)
  ELSE helloHandler(req, ctx)

\* ------------------------------------------------------- header components
\* a pathname is the sequence of its segments: "/" is <<>>
RootPath == <<>>
OutsidePath == <<"transactions", "new">>

\* the routes array of Navigation
navRoutes ==
  << [href |-> RootPath, label |-> "Overview"],
     [href |-> <<"transactions">>, label |-> "Transactions"],
     [href |-> <<"accounts">>, label |-> "Accounts"],
     [href |-> <<"categories">>, label |-> "Categories"],
     [href |-> <<"settings">>, label |-> "Settings"] >>

NavPaths == {navRoutes[k].href : k \in 1..Len(navRoutes)} \cup {OutsidePath}

IsPrefix(a, b) == Len(a) <= Len(b) /\ \A k \in 1..Len(a) : a[k] = b[k]

\* an entry highlighted on every path below its href
MobileVariant_Prefix(route, path) ==
  IF IsPrefix(route.href, path) THEN "secondary" ELSE "ghost"

\* mobile rendering: variant={route.href === pathname ? 'secondary' : 'ghost'}
MobileVariant(route, path) == IF route.href = path THEN "secondary" ELSE "ghost"

\* desktop rendering: isActive={pathname === route.href}
DesktopIsActive(route, path) == path = route.href

\* what useUser() hands to WelcomeMsg: no user object while loading or when
\* signed out, otherwise a user whose firstName may be missing ("")
FirstNames == {"", "Ann", "Bob"}
NoUserObject == [signedIn |-> FALSE, firstName |-> ""]
LoadedUsers == {NoUserObject} \cup [signedIn : {TRUE}, firstName : FirstNames]

\* {isLoaded ? ", " : " "}
Separator(loaded) == IF loaded THEN ", " ELSE " "

\* {user?.firstName}: nothing is rendered for undefined, null or ""
RenderedName(u) == IF u.signedIn /\ u.firstName # "" THEN <<u.firstName>> ELSE <<>>

\* the text of the h2 of WelcomeMsg, piece by piece
WelcomeText(loaded, u) ==
  <<"Welcome Back">> \o <<Separator(loaded)>> \o RenderedName(u) \o <<"!">>

NoEvent == [kind |-> "mount", href |-> RootPath]

UiInit ==
  /\ isOpen = FALSE
  /\ pathname = RootPath
  /\ isMobile = FALSE
  /\ isLoaded = FALSE
  /\ user = NoUserObject
  /\ event = NoEvent

\* <Sheet open={isOpen} onOpenChange={setIsOpen}>
OnOpenChange(v) ==
  /\ isMobile
  /\ isOpen' = v
  /\ event' = [kind |-> "onOpenChange", href |-> RootPath]
  /\ UNCHANGED <<pathname, isMobile, isLoaded, user>>
  /\ UNCHANGED vars

\* a click handler that navigates and leaves the drawer as it is
OnClick_KeepsOpen(href) ==
  /\ isMobile /\ isOpen
  /\ pathname' = href
  /\ event' = [kind |-> "onClick", href |-> href]
  /\ UNCHANGED <<isOpen, isMobile, isLoaded, user>>
  /\ UNCHANGED vars

\* onClick(href) of a route button in the drawer:
\* router.push(href); setIsOpen(false)
OnClick(href) ==
  /\ isMobile /\ isOpen
  /\ pathname' = href
  /\ isOpen' = FALSE
  /\ event' = [kind |-> "onClick", href |-> href]
  /\ UNCHANGED <<isMobile, isLoaded, user>>
  /\ UNCHANGED vars

\* a drawer state that is lost when the viewport changes
MediaChange_Resets ==
  /\ isMobile' = ~isMobile
  /\ isOpen' = FALSE
  /\ event' = [kind |-> "media", href |-> RootPath]
  /\ UNCHANGED <<pathname, isLoaded, user>>
  /\ UNCHANGED vars

\* useMedia: the viewport crosses the 1024px breakpoint
MediaChange ==
  /\ isMobile' = ~isMobile
  /\ event' = [kind |-> "media", href |-> RootPath]
  /\ UNCHANGED <<isOpen, pathname, isLoaded, user>>
  /\ UNCHANGED vars

\* usePathname: the location changes from outside the drawer
Navigate(p) ==
  /\ p # pathname
  /\ pathname' = p
  /\ event' = [kind |-> "navigate", href |-> p]
  /\ UNCHANGED <<isOpen, isMobile, isLoaded, user>>
  /\ UNCHANGED vars

\* useUser: Clerk finishes loading, with or without a signed-in user
ClerkLoaded(u) ==
  /\ ~isLoaded
  /\ isLoaded' = TRUE
  /\ user' = u
  /\ event' = [kind |-> "clerkLoaded", href |-> RootPath]
  /\ UNCHANGED <<isOpen, pathname, isMobile>>
  /\ UNCHANGED vars

UiNext ==
  \/ \E v \in BOOLEAN : OnOpenChange(v)
  \/ \E k \in 1..Len(navRoutes) : OnClick(navRoutes[k].href)
  \/ MediaChange
  \/ \E p \in NavPaths : Navigate(p)
  \/ \E u \in LoadedUsers : ClerkLoaded(u)

\* ------------------------------------------------------------- initial state

Init ==
  /\ app = routes
  /\ pc = [i \in Slots |-> "idle"]
  /\ request = [i \in Slots |-> NoRequest]
  /\ matched = [i \in Slots |-> <<>>]
  /\ idx = [i \in Slots |-> 1]
  /\ context = [i \in Slots |-> EmptyContext]
  /\ trace = [i \in Slots |-> <<>>]
  /\ response = [i \in Slots |-> <<>>]
  /\ UiInit

\* a chain that keeps running after a step has answered
Finished_Never(out, i, chain) == FALSE

\* the chain stops at the first handler that returns a response
Finished(out, i, chain) == out.res # <<>>

\* a dispatch that registers a route for a path it could not match
Dispatch_Registers(i, r) ==
  /\ pc[i] = "idle"
  /\ request' = [request EXCEPT ![i] = r]
  /\ matched' = [matched EXCEPT ![i] = Match(r.method, r.path)]
  /\ IF Match(r.method, r.path) = <<>>
     THEN /\ pc' = [pc EXCEPT ![i] = "done"]
          /\ response' = [response EXCEPT ![i] = <<NotFoundResponse>>]
          /\ app' = app \o <<[method |-> r.method,
                              path |-> [k \in 1..Len(r.path) |-> Lit(r.path[k])],
                              handler |-> "helloHandler"]>>
     ELSE /\ pc' = [pc EXCEPT ![i] = "run"]
          /\ UNCHANGED <<response, app>>
  /\ UNCHANGED <<idx, context, trace>>
  /\ UNCHANGED uiVars

\* GET / POST = handle(app): a request arrives, the router collects the
\* matching handlers; with none, the not-found response is returned at once
Dispatch(i, r) ==
  /\ pc[i] = "idle"
  /\ request' = [request EXCEPT ![i] = r]
  /\ matched' = [matched EXCEPT ![i] = Match(r.method, r.path)]
  /\ IF Match(r.method, r.path) = <<>>
     THEN /\ pc' = [pc EXCEPT ![i] = "done"]
          /\ response' = [response EXCEPT ![i] = <<NotFoundResponse>>]
     ELSE /\ pc' = [pc EXCEPT ![i] = "run"]
          /\ UNCHANGED response
  /\ UNCHANGED <<app, idx, context, trace>>
  /\ UNCHANGED uiVars

\* one context object kept at module level and read by every dispatch
Step_SharedContext(i) ==
  /\ pc[i] = "run"
  /\ idx[i] <= Len(matched[i])
  /\ LET h == matched[i][idx[i]].handler
         out == RunHandler(h, request[i], context[1])
     IN /\ trace' = [trace EXCEPT ![i] = Append(@, h)]
        /\ context' = [context EXCEPT ![i] = out.ctx]
        /\ idx' = [idx EXCEPT ![i] = @ + 1]
        /\ IF Finished(out, idx[i], matched[i])
           THEN /\ response' = [response EXCEPT ![i] = @ \o out.res]
                /\ pc' = [pc EXCEPT ![i] = "done"]
           ELSE IF idx[i] = Len(matched[i])
           THEN /\ response' = [response EXCEPT ![i] = @ \o out.res \o <<NotFoundResponse>>]
                /\ pc' = [pc EXCEPT ![i] = "done"]
           ELSE /\ response' = [response EXCEPT ![i] = @ \o out.res]
                /\ UNCHANGED pc
  /\ UNCHANGED <<app, request, matched>>
  /\ UNCHANGED uiVars

\* a context bag written through to every dispatch in flight
Step_LeakyContext(i) ==
  /\ pc[i] = "run"
  /\ idx[i] <= Len(matched[i])
  /\ LET h == matched[i][idx[i]].handler
         out == RunHandler(h, request[i], context[i])
     IN /\ trace' = [trace EXCEPT ![i] = Append(@, h)]
        /\ context' = [j \in Slots |-> out.ctx]
        /\ idx' = [idx EXCEPT ![i] = @ + 1]
        /\ IF Finished(out, idx[i], matched[i])
           THEN /\ response' = [response EXCEPT ![i] = @ \o out.res]
                /\ pc' = [pc EXCEPT ![i] = "done"]
           ELSE IF idx[i] = Len(matched[i])
           THEN /\ response' = [response EXCEPT ![i] = @ \o out.res \o <<NotFoundResponse>>]
                /\ pc' = [pc EXCEPT ![i] = "done"]
           ELSE /\ response' = [response EXCEPT ![i] = @ \o out.res]
                /\ UNCHANGED pc
  /\ UNCHANGED <<app, request, matched>>
  /\ UNCHANGED uiVars

\* the next matched handler of a dispatch runs; a response ends the
\* dispatch, next() past the last handler gives the not-found response
Step(i) ==
  /\ pc[i] = "run"
  /\ idx[i] <= Len(matched[i])
  /\ LET h == matched[i][idx[i]].handler
         out == RunHandler(h, request[i], context[i])
     IN /\ trace' = [trace EXCEPT ![i] = Append(@, h)]
        /\ context' = [context EXCEPT ![i] = out.ctx]
        /\ idx' = [idx EXCEPT ![i] = @ + 1]
        /\ IF Finished(out, idx[i], matched[i])
           THEN /\ response' = [response EXCEPT ![i] = @ \o out.res]
                /\ pc' = [pc EXCEPT ![i] = "done"]
           ELSE IF idx[i] = Len(matched[i])
           THEN /\ response' = [response EXCEPT ![i] = @ \o out.res \o <<NotFoundResponse>>]
                /\ pc' = [pc EXCEPT ![i] = "done"]
           ELSE /\ response' = [response EXCEPT ![i] = @ \o out.res]
                /\ UNCHANGED pc
  /\ UNCHANGED <<app, request, matched>>
  /\ UNCHANGED uiVars

Next ==
  \/ \E i \in Slots, r \in Requests : Dispatch(i, r)
  \/ \E i \in Slots : Step(i)

Spec == Init /\ [][Next]_vars

\* the header components alone, no request in flight
UiSpec == Init /\ [][UiNext]_uiVars

\* ------------------------------------------------------ claims: vocabulary
Started(i) == pc[i] # "idle"
Done(i) == pc[i] = "done"
IsHello(i) == Started(i) /\ request[i].method = "GET" /\ request[i].path = HelloPath
Anonymous(i) == Verify(request[i].cred).userId = NoUser
InTrace(i, h) == \E k \in 1..Len(trace[i]) : trace[i][k] = h
HelloChain == <<"clerkMiddleware", "helloHandler">>
UnauthorizedBody == [message |-> "Unauthorized"]

\* C1: GET /api/hello without a credential is answered with status 401 and
\* the body {"message":"Unauthorized"}.
C1_Unauthorized401 ==
  \A i \in Slots :
    (Done(i) /\ IsHello(i) /\ request[i].cred = NoCred) =>
      /\ Len(response[i]) = 1
      /\ response[i][1].status = 401
      /\ response[i][1].body = UnauthorizedBody

\* C2 (as claimed): with an anonymous auth context the terminal handler of
\* the gated route is never invoked; the auth step ends the chain itself.
C2_HandlerNeverInvoked ==
  \A i \in Slots : (IsHello(i) /\ Anonymous(i)) => ~InTrace(i, "helloHandler")

\* C2 (amended): on GET /api/hello with an anonymous auth context the auth
\* middleware does not end the chain; the terminal handler is invoked and it
\* is the step that produces the {"message":"Unauthorized"} body, which
\* carries no userId.
C2_HandlerAnswersAnonymous ==
  \A i \in Slots :
    (IsHello(i) /\ Anonymous(i)) =>
      /\ (trace[i] = <<"clerkMiddleware">> => pc[i] = "run" /\ response[i] = <<>>)
      /\ Done(i) =>
           /\ trace[i] = HelloChain
           /\ Len(response[i]) = 1
           /\ response[i][1].body = UnauthorizedBody

C2_Witness ==
  \E i \in Slots :
    Done(i) /\ IsHello(i) /\ Anonymous(i) /\ InTrace(i, "helloHandler")
      /\ response[i] # <<>>

\* C3: GET /api/hello with a credential that resolves to user U is answered
\* with status 200 and a JSON body whose userId is U, for every user U.
C3_UserIdEchoed ==
  \A i \in Slots :
    (Done(i) /\ IsHello(i) /\ request[i].cred \in Users) =>
      /\ Len(response[i]) = 1
      /\ response[i][1].status = 200
      /\ response[i][1].ctype = "application/json"
      /\ "userId" \in DOMAIN response[i][1].body
      /\ response[i][1].body.userId = request[i].cred

C3_Witness ==
  \E i \in Slots :
    /\ Done(i) /\ IsHello(i) /\ request[i].cred = NumUsers
    /\ response[i] = <<[status |-> 200, ctype |-> "application/json",
                        body |-> [message |-> "Hello Next.js!", userId |-> NumUsers]]>>

\* C4: a request whose path matches no registered pattern is answered with
\* 404 and no middleware step and no handler is invoked for it.
NoPatternMatches(path) == \A k \in 1..Len(routes) : ~PathMatch(routes[k].path, path)

C4_NotFoundRunsNothing ==
  \A i \in Slots :
    (Started(i) /\ NoPatternMatches(request[i].path)) =>
      /\ Done(i)
      /\ trace[i] = <<>>
      /\ context[i] = EmptyContext
      /\ Len(response[i]) = 1
      /\ response[i][1].status = 404

C4_Witness ==
  \E i \in Slots :
    /\ Done(i) /\ request[i].path = BareHelloPath
    /\ trace[i] = <<>> /\ response[i] # <<>> /\ response[i][1].status = 404

\* C5: a dispatch of a matched route produces exactly one response, and once
\* a step has produced the response no later step of that chain executes.
C5_State ==
  \A i \in Slots :
    /\ Len(response[i]) <= 1
    /\ (Done(i) <=> Len(response[i]) = 1)

C5_NoStepAfter ==
  \A i \in Slots : response[i] # <<>> => (trace'[i] = trace[i] /\ response'[i] = response[i])

C5_OneResponse == [](C5_State) /\ [][C5_NoStepAfter]_vars

C5_Witness ==
  \E i \in Slots : Done(i) /\ trace[i] = HelloChain /\ Len(response[i]) = 1

\* C6: the steps of a chain run in registration order; on GET /api/hello the
\* auth middleware has run and stored the auth context before the handler
\* reads it.
RegIndex(h) == CHOOSE k \in 1..Len(routes) : routes[k].handler = h

C6_RegistrationOrder ==
  \A i \in Slots :
    /\ \A k \in 1..Len(trace[i]) : \A l \in 1..Len(trace[i]) :
         k < l => RegIndex(trace[i][k]) < RegIndex(trace[i][l])
    /\ InTrace(i, "helloHandler") =>
         /\ Len(trace[i]) = 2
         /\ trace[i][1] = "clerkMiddleware"
         /\ "clerkAuth" \in DOMAIN context[i]

C6_Witness ==
  \E i \in Slots : trace[i] = HelloChain /\ "clerkAuth" \in DOMAIN context[i]

\* C7: a route GET /hello/:test is registered and GET /api/hello/123 is
\* answered with status 200 and a body whose test is "123".
C7_TestRouteAnswers ==
  \A i \in Slots :
    (Done(i) /\ request[i].method = "GET" /\ request[i].path = HelloTestPath) =>
      /\ Len(response[i]) = 1
      /\ response[i][1].status = 200
      /\ "test" \in DOMAIN response[i][1].body
      /\ response[i][1].body.test = "123"

\* C8 (as claimed): a request whose path lacks the parameter test (it does
\* not match /hello/:test, such as GET /api/hello) is answered with 404 and
\* the parameter validator never runs for it.
LacksTestParam(i) == Started(i) /\ ~PathMatch(TestPattern, request[i].path)

C10_SoftGate ==
  \A i \in Slots :
    InTrace(i, "clerkMiddleware") =>
      /\ "clerkAuth" \in DOMAIN context[i]
      /\ context[i]["clerkAuth"].userId = request[i].cred
      /\ (Len(trace[i]) = 1 => pc[i] = "run" /\ response[i] = <<>>)
      /\ (Done(i) => InTrace(i, "helloHandler"))

C10_Witness ==
  \E i \in Slots, j \in Slots :
    /\ Done(i) /\ IsHello(i) /\ Anonymous(i) /\ InTrace(i, "helloHandler")
    /\ Done(j) /\ IsHello(j) /\ ~Anonymous(j) /\ InTrace(j, "helloHandler")
    /\ context[i]["clerkAuth"].userId = NoUser
    /\ context[j]["clerkAuth"].userId = request[j].cred

\* C11: the base path /api is part of every registered pattern: a request
\* reaches the /hello route only as /api/hello; GET /hello without the
\* prefix matches nothing and is answered with 404.
C11_BasePathApplied ==
  \A i \in Slots :
    Done(i) =>
      /\ trace[i] # <<>> =>
           /\ Len(request[i].path) = 2
           /\ request[i].path[1] = "api"
           /\ request[i].path[2] = "hello"
      /\ (request[i].method = "GET" /\ request[i].path = <<"api", "hello">>) =>
           trace[i] = HelloChain
      /\ request[i].path = <<"hello">> =>
           /\ trace[i] = <<>>
           /\ Len(response[i]) = 1
           /\ response[i][1].status = 404

C11_Witness ==
  \E i \in Slots, j \in Slots :
    /\ Done(i) /\ request[i].method = "GET" /\ request[i].path = <<"api", "hello">>
    /\ trace[i] = HelloChain
    /\ Done(j) /\ request[j].method = "GET" /\ request[j].path = <<"hello">>
    /\ response[j] # <<>> /\ response[j][1].status = 404

\* C14: every response returned by a dispatch has a JSON object as its body,
\* and an error response has a body of the shape {"message": string}.
C14_JsonObjectBodies ==
  \A i \in Slots : \A k \in 1..Len(response[i]) :
    /\ response[i][k].ctype = "application/json"
    /\ response[i][k].status >= 400 => DOMAIN response[i][k].body = {"message"}

C16_NoCrossTalk ==
  \A i \in Slots :
    /\ "clerkAuth" \in DOMAIN context[i] =>
         /\ InTrace(i, "clerkMiddleware")
         /\ context[i]["clerkAuth"].userId = request[i].cred
    /\ (Done(i) /\ IsHello(i)) =>
         /\ Len(response[i]) = 1
         /\ IF request[i].cred = NoCred
            THEN response[i][1].body = UnauthorizedBody
            ELSE response[i][1].body =
                   [message |-> "Hello Next.js!", userId |-> request[i].cred]

C16_Witness ==
  \E i \in Slots, j \in Slots :
    /\ IsHello(i) /\ IsHello(j) /\ request[i].cred # request[j].cred
    /\ pc[i] = "run" /\ trace[i] = <<"clerkMiddleware">>
    /\ Done(j) /\ trace[j] = HelloChain
    /\ request[j].cred \in Users
    /\ response[j][1].body.userId = request[j].cred

\* C17: the route table is built at startup and no dispatch adds, removes or
\* changes an entry of it.
C17_RouteTableFrozen == [][app' = app]_vars

C17_Witness ==
  \E i \in Slots, j \in Slots :
    /\ Done(i) /\ trace[i] = HelloChain
    /\ Done(j) /\ trace[j] = <<>> /\ response[j] = <<NotFoundResponse>>
    /\ Len(app) = 2
    /\ app[1].handler = "clerkMiddleware" /\ app[2].handler = "helloHandler"
    /\ app[1].method = "GET" /\ app[2].method = "GET"

\* C24: the body of the GET /api/hello response has a userId field exactly
\* when the resolved auth context has a user id; an Unauthorized body never
\* has one, and the body for user U never carries another user's id.
C24_UserIdOnlyForOwner ==
  \A i \in Slots :
    (Done(i) /\ IsHello(i)) =>
      /\ Len(response[i]) = 1
      /\ ("userId" \in DOMAIN response[i][1].body) <=> (request[i].cred \in Users)
      /\ response[i][1].body.message = "Unauthorized" =>
           "userId" \notin DOMAIN response[i][1].body
      /\ "userId" \in DOMAIN response[i][1].body =>
           response[i][1].body.userId = request[i].cred

C24_Witness ==
  \E i \in Slots, j \in Slots :
    /\ Done(i) /\ IsHello(i) /\ request[i].cred = NoCred
    /\ response[i][1].body = UnauthorizedBody
    /\ Done(j) /\ IsHello(j) /\ request[j].cred = 1
    /\ response[j][1].body.userId = 1

\* C25: matching looks at the method: POST /api/hello, registered for GET
\* only, matches no route, is answered with 404 and runs neither the auth
\* middleware nor the handler.
C25_MethodSensitive ==
  \A i \in Slots :
    (Started(i) /\ request[i].method = "POST") =>
      /\ Done(i)
      /\ trace[i] = <<>>
      /\ context[i] = EmptyContext
      /\ Len(response[i]) = 1
      /\ response[i][1].status = 404

C25_Witness ==
  \E i \in Slots :
    /\ Done(i) /\ request[i].method = "POST" /\ request[i].path = HelloPath
    /\ trace[i] = <<>> /\ response[i] # <<>> /\ response[i][1].status = 404

\* C26: a click on a route button of the mobile drawer navigates to the
\* button's href and closes the drawer: right after onClick(href) the
\* pathname is href and isOpen is false.
C26_ClickNavigatesAndCloses ==
  event.kind = "onClick" => (pathname = event.href /\ isOpen = FALSE)

C26_Witness ==
  /\ event.kind = "onClick" /\ event.href = <<"settings">>
  /\ pathname = <<"settings">> /\ ~isOpen /\ isMobile

\* C27: at most one entry of the navigation is rendered as active, and an
\* entry is active exactly when the pathname equals its href, in the mobile
\* and in the desktop rendering.
ActiveEntries ==
  {k \in 1..Len(navRoutes) :
     IF isMobile THEN MobileVariant(navRoutes[k], pathname) = "secondary"
     ELSE DesktopIsActive(navRoutes[k], pathname)}

C27_OneActiveEntry ==
  /\ Cardinality(ActiveEntries) <= 1
  /\ \A k \in 1..Len(navRoutes) :
       k \in ActiveEntries <=> navRoutes[k].href = pathname
  /\ pathname = OutsidePath => ActiveEntries = {}

C27_Witness ==
  /\ isMobile /\ isOpen /\ pathname = <<"transactions">> /\ ActiveEntries = {2}

\* C28: isOpen starts false and changes only through the sheet's open-change
\* callback or a route-button click; a viewport change or a pathname change
\* from elsewhere leaves it as it is, so a drawer left open is still open
\* when the mobile rendering returns.
C28_Frame ==
  /\ isOpen' # isOpen => event'.kind \in {"onOpenChange", "onClick"}
  /\ event'.kind \in {"media", "navigate", "clerkLoaded"} => isOpen' = isOpen

C28_IsOpenOwnedByDrawer == ~isOpen /\ [][C28_Frame]_uiVars

C28_Witness == event.kind = "media" /\ ~isMobile /\ isOpen

\* C29: the welcome message shows ", <firstName>" when the user is loaded
\* and has a first name, and otherwise shows neither the ", " separator nor
\* a name.
HasFirstName == isLoaded /\ user.signedIn /\ user.firstName # ""

C29_NameOnlyWhenAvailable ==
  LET text == WelcomeText(isLoaded, user)
      hasSep == \E k \in 1..Len(text) : text[k] = ", "
  IN IF HasFirstName
     THEN text = <<"Welcome Back", ", ", user.firstName, "!">>
     ELSE ~hasSep /\ Len(text) = 3 /\ text[1] = "Welcome Back" /\ text[3] = "!"

====
